---- MODULE Spec2Model ----
(***************************************************************************)
(* Model of the Reports page of OSMAR (src/unnamed/part_001): the display  *)
(* time filter, the consumption analysis (calcularConsumoMedio), the       *)
(* custom rounding (arredondamentoPersonalizado) and the revenue           *)
(* aggregates computed by the page's effect; and of the DateRangePicker    *)
(* (src/unnamed/part_000) on the Dashboard and Sales pages                 *)
(* (src/src/pages/Dashboard.tsx, src/src/pages/Sales.tsx): the period      *)
(* resolvers, the custom range selection, the calendar surface with its    *)
(* delayed close, and the pages' date filter.                              *)
(*                                                                         *)
(* Numbers.  JavaScript numbers are doubles.  The model keeps every        *)
(* quotient as an exact fraction [num, den] and compares fractions by      *)
(* cross-multiplication.  For the values that occur here this agrees with  *)
(* the doubles of the code:                                                *)
(*  - M / 30 and W / 7 with integer M, W are correctly rounded, a value    *)
(*    k + 0.5 is exact, and every other fraction is at least 1/30 away     *)
(*    from the 0.5 threshold;                                              *)
(*  - M * 1.2 with 5 | M rounds to the integer 6M/5 (the relative error    *)
(*    of the double 1.2 is below half an ulp), otherwise the fractional    *)
(*    part is a multiple of 0.2, so Math.ceil agrees with the exact ceil;  *)
(*  - older * 1.1 and older * 0.9, when the exact product is an integer N, *)
(*    round to N or to the double just above N, so an integer recent       *)
(*    satisfies recent > older * 1.1 (recent < older * 0.9) in doubles     *)
(*    exactly when it does in exact arithmetic.                            *)
(* A division by zero is kept as the values NaN / Infinity it produces.    *)
(*                                                                         *)
(* Time.  An instant is a number of ticks since 2025-01-01 00:00 local     *)
(* time, TicksPerDay ticks to the day; 2025 and 2026 have 365 days.        *)
(* Money is counted in cents, so Math.floor of an amount is cents \div 100.*)
(* The instants of a day are sampled points: 0 is 00:00:00.000 and the     *)
(* last one, PM, is 23:59:59, with or without the 999 ms (no sale is       *)
(* sampled between 23:59:59.000 and 23:59:59.999).                         *)
(* A Date | null is <<t>> or <<>>.                                         *)
(***************************************************************************)
EXTENDS Integers, Sequences, FiniteSets, TLC

VARIABLES
    sales,                  \* useSales(): [ready, rows]; ready is FALSE while undefined
    products,               \* useProducts(): [ready, rows]; ready is FALSE while undefined
    timeFilter,             \* useState('all')
    now,                    \* the clock read by the last effect run (new Date())
    monthlySales,           \* useState<MonthlyData[]>([])
    categoryDistribution,   \* useState<CategoryData[]>([])
    revenueContribution,    \* useState<CategoryData[]>([])
    analiseConsumo,         \* useState<ConsumoAnalise[]>([])
    valor,                  \* argument of a stand-alone call of arredondamentoPersonalizado
    arredondado,            \* its result, -1 before the call
    pagina,                 \* the mounted page with the picker: "Dashboard", "Sales", "none"
    selectedPeriod,         \* page: useState('daily') / useState('all')
    startDate,              \* page: useState<Date | null>
    endDate,                \* page: useState<Date | null>
    isCalendarOpen,         \* picker: useState(false)
    timers,                 \* pending setTimeout callbacks of the picker, oldest first;
                            \* TRUE: the surface has been opened again since it was set
    entregues,              \* the onChange calls made by the last handleDateChange
    evento,                 \* the last event handled on the page
    visibleSales,           \* filteredSales of the page's last render
    totalSales,             \* Dashboard: useState(0)
    numberOfSales,          \* Dashboard: useState(0)
    netProfit               \* Dashboard: useState(0)

vars == <<sales, products, timeFilter, now, monthlySales, categoryDistribution,
          revenueContribution, analiseConsumo, valor, arredondado,
          pagina, selectedPeriod, startDate, endDate, isCalendarOpen, timers,
          entregues, evento, visibleSales, totalSales, numberOfSales, netProfit>>

pageVars == <<pagina, selectedPeriod, startDate, endDate, isCalendarOpen, timers,
              entregues, evento, visibleSales, totalSales, numberOfSales, netProfit>>

reportVars == <<sales, products, timeFilter, now, monthlySales, categoryDistribution,
                revenueContribution, analiseConsumo>>

(***************************************************************************)
(* Bounds of the model.                                                    *)
(***************************************************************************)
MaxSales == 2           \* sales in a snapshot
NumProducts == 6        \* products of the full catalog
TicksPerDay == 2        \* instants distinguished within a day
MaxNum == 30            \* numerators of the values given to the rounding alone
MaxTimers == 1          \* pending close timers of the picker

(***************************************************************************)
(* Generic helpers.                                                        *)
(***************************************************************************)
RECURSIVE SumSeq(_)
SumSeq(s) == IF s = <<>> THEN 0 ELSE Head(s) + SumSeq(Tail(s))

RECURSIVE Flatten(_)
Flatten(ss) == IF ss = <<>> THEN <<>> ELSE Head(ss) \o Flatten(Tail(ss))

Range(s) == {s[i] : i \in 1..Len(s)}

Rat(n, d) == [num |-> n, den |-> d]
RatLt(a, b) == a.num * b.den < b.num * a.den
RatGe(a, b) == ~RatLt(a, b)

(***************************************************************************)
(* The Date operations the page uses.                                      *)
(***************************************************************************)
MonthLen == <<31, 28, 31, 30, 31, 30, 31, 31, 30, 31, 30, 31>>

DaysBeforeMonth(m) == SumSeq(SubSeq(MonthLen, 1, m))          \* m in 0..12

DayOf(t) == t \div TicksPerDay
getFullYear(t) == DayOf(t) \div 365                           \* years since 2025
DayOfYear(t) == DayOf(t) % 365
getMonth(t) ==
    CHOOSE m \in 0..11 :
        DaysBeforeMonth(m) <= DayOfYear(t) /\ DayOfYear(t) < DaysBeforeMonth(m + 1)
getDate(t) == DayOfYear(t) - DaysBeforeMonth(getMonth(t)) + 1

\* new Date(year, month, day): local midnight; month -1 is December of the
\* year before and a day past the month's end runs into the next month.
NewDate(y, m, d) ==
    LET yy == IF m < 0 THEN y - 1 ELSE y
        mm == IF m < 0 THEN m + 12 ELSE m
    IN  (yy * 365 + DaysBeforeMonth(mm) + d - 1) * TicksPerDay

\* date.getTime() - 7 * 24 * 60 * 60 * 1000
SevenDaysBefore(t) == t - 7 * TicksPerDay

\* a.toDateString() === b.toDateString()
SameDateString(a, b) == DayOf(a) = DayOf(b)

(***************************************************************************)
(* Inputs: the catalogs and the sales the providers may deliver.           *)
(***************************************************************************)
PM == TicksPerDay - 1                   \* the last instant of a day; its first is 0

tHoje == NewDate(1, 2, 20)         \* 2026-03-20, morning
tSemana == NewDate(1, 2, 13) + PM       \* 2026-03-13, end of the day
tAntes == NewDate(1, 2, 13)        \* 2026-03-13, morning
tMesManha == NewDate(1, 1, 20)     \* 2026-02-20, morning
tFora == NewDate(1, 1, 19) + PM         \* 2026-02-19, end of the day
SaleTimes == {tHoje, tSemana, tAntes, tMesManha, tFora}

\* the instants at which the page renders: 2026-03-20 end of the day and
\* 2026-03-31 morning (one month before which is "February 31st")
Nows == {NewDate(1, 2, 20) + PM, NewDate(1, 2, 31)}

Product(i) ==
    [id |-> i, name |-> <<"produto", i>>, category |-> <<"categoria", i % 3>>,
     cost_price |-> (i % 2) * 40]
FullCatalog == [i \in 1..NumProducts |-> Product(i)]
Catalogs == {SubSeq(FullCatalog, 1, k) : k \in {1, NumProducts}}
OrphanId == NumProducts + 1             \* a product_id no catalog has

Item(id, q, price) == [product_id |-> id, quantity |-> q, price_at_sale |-> price]
SaleOf(t, items) ==
    [created_at |-> t, sale_items |-> items,
     total |-> SumSeq([i \in 1..Len(items) |-> items[i].price_at_sale * items[i].quantity])]

\* one unit of every product (and of the orphan), at prices not ordered by id
BulkPrice(i) == ((i * 3) % 7) * 50 + 25
BulkSale(t) == SaleOf(t, [i \in 1..OrphanId |-> Item(i, 1, BulkPrice(i))])

SalePool ==
    {SaleOf(t, <<Item(1, 10, 150)>>) : t \in SaleTimes}
    \cup {SaleOf(tHoje, <<Item(1, q, 150)>>) : q \in {9, 11}}
    \cup {SaleOf(tAntes, <<Item(1, 20, 150)>>)}
    \cup {SaleOf(tHoje, <<Item(2, 10, 0)>>)}
    \cup {SaleOf(tHoje, <<Item(OrphanId, 1, 100)>>)}
    \cup {BulkSale(t) : t \in {tHoje, tFora}}

TimeFilters == {"all", "daily", "weekly", "monthly"}

\* values given to the rounding on its own: n/d with the divisors of the page
\* (1, 7, 30) and halves and hundredths
Valores == {Rat(n, d) : n \in 0..(MaxNum * 10), d \in {1, 2, 7, 30, 100}}

(***************************************************************************)
(* filterSalesByTime                                                       *)
(***************************************************************************)
PassesTimeFilter(sale, filter, agora) ==
    CASE filter = "daily" -> SameDateString(sale.created_at, agora)
      [] filter = "weekly" -> sale.created_at >= SevenDaysBefore(agora)
      [] filter = "monthly" ->
            /\ getMonth(sale.created_at) = getMonth(agora)
            /\ getFullYear(sale.created_at) = getFullYear(agora)
      [] OTHER -> TRUE

filterSalesByTime(ss, filter, agora) ==
    SelectSeq(ss, LAMBDA sale : PassesTimeFilter(sale, filter, agora))

(***************************************************************************)
(* arredondamentoPersonalizado                                             *)
(***************************************************************************)
arredondamentoSemPiso(v) ==
    LET parteDecimal == Rat(v.num % v.den, v.den)
        parteInteira == v.num \div v.den
    IN  IF RatGe(parteDecimal, Rat(1, 2)) THEN parteInteira + 1 ELSE parteInteira

arredondamentoMeioParaBaixo(v) ==
    IF RatLt(v, Rat(1, 1)) THEN 1
    ELSE LET parteDecimal == Rat(v.num % v.den, v.den)
             parteInteira == v.num \div v.den
         IN  IF RatLt(Rat(1, 2), parteDecimal) THEN parteInteira + 1 ELSE parteInteira

arredondamentoPersonalizado(v) ==
    IF RatLt(v, Rat(1, 1)) THEN 1
    ELSE LET parteDecimal == Rat(v.num % v.den, v.den)
             parteInteira == v.num \div v.den
         IN  IF RatGe(parteDecimal, Rat(1, 2)) THEN parteInteira + 1 ELSE parteInteira

(***************************************************************************)
(* calcularConsumoMedio                                                    *)
(***************************************************************************)
\* venda.sale_items.map(item => ({...item, created_at: venda.created_at}))
ItensComData(venda) ==
    [i \in 1..Len(venda.sale_items) |->
        [product_id |-> venda.sale_items[i].product_id,
         quantity |-> venda.sale_items[i].quantity,
         price_at_sale |-> venda.sale_items[i].price_at_sale,
         created_at |-> venda.created_at]]

TodosItens(vendas) == Flatten([i \in 1..Len(vendas) |-> ItensComData(vendas[i])])

vendasDeTodosProdutos(produto, vendas) == TodosItens(vendas)

vendasProduto(produto, vendas) ==
    SelectSeq(TodosItens(vendas), LAMBDA item : item.product_id = produto.id)

umMesAtrasTrintaDias(hoje) == NewDate(getFullYear(hoje), getMonth(hoje), getDate(hoje) - 30)

umMesAtras(hoje) == NewDate(getFullYear(hoje), getMonth(hoje) - 1, getDate(hoje))

umaSemanaAtras(hoje) == SevenDaysBefore(hoje)

Quantidades(itens) == SumSeq([i \in 1..Len(itens) |-> itens[i].quantity])

vendasMes(produto, vendas, hoje) ==
    SelectSeq(vendasProduto(produto, vendas),
              LAMBDA item : item.created_at >= umMesAtras(hoje))

vendasSemana(produto, vendas, hoje) ==
    SelectSeq(vendasProduto(produto, vendas),
              LAMBDA item : item.created_at >= umaSemanaAtras(hoje))

consumoRecente(produto, vendas, hoje) == Quantidades(vendasSemana(produto, vendas, hoje))

consumoAntigo(produto, vendas, hoje) ==
    Quantidades(SelectSeq(vendasMes(produto, vendas, hoje),
                          LAMBDA item : item.created_at < umaSemanaAtras(hoje)))

tendenciaNaoEstrita(recente, antigo) ==
    IF RatGe(Rat(recente, 1), Rat(antigo * 11, 10)) THEN "subindo"
    ELSE IF ~RatLt(Rat(antigo * 9, 10), Rat(recente, 1)) THEN "descendo"
    ELSE "estavel"

\* consumoRecente > consumoAntigo * 1.1, consumoRecente < consumoAntigo * 0.9
tendencia(recente, antigo) ==
    IF RatLt(Rat(antigo * 11, 10), Rat(recente, 1)) THEN "subindo"
    ELSE IF RatLt(Rat(recente, 1), Rat(antigo * 9, 10)) THEN "descendo"
    ELSE "estavel"

Ceil(v) == (v.num + v.den - 1) \div v.den       \* Math.ceil of v >= 0

quantidadeSugeridaSemMargem(consumoMensal) == consumoMensal

\* Math.ceil(consumoMensal * 1.2)
quantidadeSugerida(consumoMensal) == Ceil(Rat(consumoMensal * 12, 10))

calcularConsumoMedio(produto, vendas, hoje) ==
    LET consumoMensal == Quantidades(vendasMes(produto, vendas, hoje))
        consumoDiario == Rat(consumoMensal, 30)
        consumoSemanal == Rat(Quantidades(vendasSemana(produto, vendas, hoje)), 7)
    IN  [produto |-> produto.name,
         consumo_diario |-> arredondamentoPersonalizado(consumoDiario),
         consumo_semanal |-> arredondamentoPersonalizado(consumoSemanal),
         consumo_mensal |-> arredondamentoPersonalizado(Rat(consumoMensal, 1)),
         quantidade_sugerida |->
             arredondamentoPersonalizado(Rat(quantidadeSugerida(consumoMensal), 1)),
         tendencia |-> tendencia(consumoRecente(produto, vendas, hoje),
                                 consumoAntigo(produto, vendas, hoje))]

(***************************************************************************)
(* The aggregates of the page's effect.  An object used as a map is a      *)
(* sequence of [key, value] in insertion order.                            *)
(***************************************************************************)
HasKey(acc, k) == \E i \in 1..Len(acc) : acc[i].key = k
KeyIndex(acc, k) == CHOOSE i \in 1..Len(acc) : acc[i].key = k

\* acc[k] = (acc[k] || 0) + v
AccAdd(acc, k, v) ==
    IF HasKey(acc, k)
    THEN [acc EXCEPT ![KeyIndex(acc, k)].value = @ + v]
    ELSE Append(acc, [key |-> k, value |-> v])

Values(acc) == [i \in 1..Len(acc) |-> acc[i].value]

\* products.find(p => p.id === item.product_id)
HasProduct(ps, id) == \E i \in 1..Len(ps) : ps[i].id = id
FindProduct(ps, id) ==
    ps[CHOOSE i \in 1..Len(ps) :
          /\ ps[i].id = id
          /\ \A j \in 1..(i - 1) : ps[j].id # id]

\* monthlyData: sale.total by month name
RECURSIVE MonthlyData(_, _)
MonthlyData(ss, acc) ==
    IF ss = <<>> THEN acc
    ELSE MonthlyData(Tail(ss), AccAdd(acc, getMonth(Head(ss).created_at), Head(ss).total))

\* categoryData / productRevenue: price_at_sale * quantity of the items whose
\* product is found, by the product's category / name
RECURSIVE RevenueBy(_, _, _, _)
RevenueBy(items, ps, field, acc) ==
    IF items = <<>> THEN acc
    ELSE LET item == Head(items)
         IN  IF HasProduct(ps, item.product_id)
             THEN RevenueBy(Tail(items), ps, field,
                            AccAdd(acc, FindProduct(ps, item.product_id)[field],
                                   item.price_at_sale * item.quantity))
             ELSE RevenueBy(Tail(items), ps, field, acc)

categoryData(filteredSales, ps) == RevenueBy(TodosItens(filteredSales), ps, "category", <<>>)
productRevenue(filteredSales, ps) == RevenueBy(TodosItens(filteredSales), ps, "name", <<>>)

\* Array.prototype.sort with (a, b) => b - a on the keys: stable, descending
Rank(keys, i) ==
    1 + Cardinality({j \in 1..Len(keys) :
                        keys[j] > keys[i] \/ (keys[j] = keys[i] /\ j < i)})
SortDesc(s, keys) ==
    [pos \in 1..Len(s) |-> s[CHOOSE i \in 1..Len(s) : Rank(keys, i) = pos]]

Floor100(cents) == cents \div 100               \* Math.floor of an amount
Percentage(value, total) == Rat(value * 100, total)    \* (value / total) * 100

CategoryDistributionByCount(filteredSales, ps) ==
    LET data == categoryData(filteredSales, ps)
    IN  [i \in 1..Len(data) |->
            [name |-> data[i].key, value |-> Percentage(data[i].value, Len(data))]]

CategoryDistribution(filteredSales, ps) ==
    LET data == categoryData(filteredSales, ps)
        totalCategorySales == SumSeq(Values(data))
    IN  [i \in 1..Len(data) |->
            [name |-> data[i].key,
             value |-> Percentage(data[i].value, totalCategorySales)]]

Slice(s, from, to) == SubSeq(s, from + 1, IF to < Len(s) THEN to ELSE Len(s))

sortedProductsUnsorted(revenue) == Slice(revenue, 0, 5)

sortedProducts(revenue) == Slice(SortDesc(revenue, Values(revenue)), 0, 5)

otherRevenueFromFourth(revenue) ==
    SumSeq(Values(Slice(SortDesc(revenue, Values(revenue)), 4, Len(revenue))))

otherRevenue(revenue) ==
    SumSeq(Values(Slice(SortDesc(revenue, Values(revenue)), 5, Len(revenue))))

RevenueContribution(filteredSales, ps) ==
    LET revenue == productRevenue(filteredSales, ps)
        top == sortedProducts(revenue)
        totalProductRevenue == SumSeq(Values(revenue))
    IN  [i \in 1..Len(top) |->
            [name |-> top[i].key,
             value |-> Floor100(top[i].value),
             percentage |-> Percentage(top[i].value, totalProductRevenue)]]
        \o <<[name |-> <<"reports.others", 0>>,
              value |-> Floor100(otherRevenue(revenue)),
              percentage |-> Percentage(otherRevenue(revenue), totalProductRevenue)]>>

ordenarCrescente(analise) ==
    SortDesc(analise, [i \in 1..Len(analise) |-> 0 - analise[i].quantidade_sugerida])

\* analise.sort((a, b) => b.quantidade_sugerida - a.quantidade_sugerida)
ordenarAnalise(analise) ==
    SortDesc(analise, [i \in 1..Len(analise) |-> analise[i].quantidade_sugerida])

AnaliseConsumo(filteredSales, ps, hoje) ==
    ordenarAnalise([i \in 1..Len(ps) |-> calcularConsumoMedio(ps[i], filteredSales, hoje)])

(***************************************************************************)
(* The page.  Every change of sales, products or timeFilter re-renders and *)
(* runs the effect, which returns at once unless both snapshots are there. *)
(***************************************************************************)
Undefined == [ready |-> FALSE, rows |-> <<>>]
Snapshot(rows) == [ready |-> TRUE, rows |-> rows]

Effect(s, p, f, agora) ==
    /\ now' = agora
    /\ IF s.ready /\ p.ready
       THEN LET filteredSales == filterSalesByTime(s.rows, f, agora)
            IN  /\ monthlySales' = MonthlyData(filteredSales, <<>>)
                /\ categoryDistribution' = CategoryDistribution(filteredSales, p.rows)
                /\ revenueContribution' = RevenueContribution(filteredSales, p.rows)
                /\ analiseConsumo' = AnaliseConsumo(filteredSales, p.rows, agora)
       ELSE UNCHANGED <<monthlySales, categoryDistribution, revenueContribution,
                        analiseConsumo>>

\* no page with a picker is mounted
Null == <<>>
NoPage ==
    /\ pagina = "none"
    /\ selectedPeriod = "all"
    /\ startDate = Null
    /\ endDate = Null
    /\ isCalendarOpen = FALSE
    /\ timers = <<>>
    /\ entregues = <<>>
    /\ evento = "mount"
    /\ visibleSales = <<>>
    /\ totalSales = 0
    /\ numberOfSales = 0
    /\ netProfit = 0

Init ==
    /\ NoPage
    /\ sales = Undefined
    /\ products = Undefined
    /\ timeFilter = "all"
    /\ now \in Nows
    /\ monthlySales = <<>>
    /\ categoryDistribution = <<>>
    /\ revenueContribution = <<>>
    /\ analiseConsumo = <<>>
    /\ valor = Rat(0, 1)
    /\ arredondado = -1

\* the sales provider delivers its first snapshot
FetchSales ==
    /\ ~sales.ready
    /\ \E agora \in {n \in Nows : n >= now} :
        /\ sales' = Snapshot(<<>>)
        /\ UNCHANGED <<products, timeFilter, valor, arredondado, pageVars>>
        /\ Effect(sales', products, timeFilter, agora)

\* a sale is recorded and the provider delivers the longer snapshot
NewSale ==
    /\ sales.ready
    /\ Len(sales.rows) < MaxSales
    /\ \E sale \in SalePool, agora \in {n \in Nows : n >= now} :
        /\ sales' = Snapshot(Append(sales.rows, sale))
        /\ UNCHANGED <<products, timeFilter, valor, arredondado, pageVars>>
        /\ Effect(sales', products, timeFilter, agora)

\* the products provider delivers a snapshot of the catalog
FetchProducts ==
    \E catalog \in Catalogs, agora \in {n \in Nows : n >= now} :
        /\ products # Snapshot(catalog)
        /\ products' = Snapshot(catalog)
        /\ UNCHANGED <<sales, timeFilter, valor, arredondado, pageVars>>
        /\ Effect(sales, products', timeFilter, agora)

\* onChange of the filter select: setTimeFilter(e.target.value)
SetTimeFilter ==
    \E f \in TimeFilters \ {timeFilter}, agora \in {n \in Nows : n >= now} :
        /\ timeFilter' = f
        /\ UNCHANGED <<sales, products, valor, arredondado, pageVars>>
        /\ Effect(sales, products, f, agora)

Next == FetchSales \/ NewSale \/ FetchProducts \/ SetTimeFilter

Spec == Init /\ [][Next]_vars

(***************************************************************************)
(* arredondamentoPersonalizado on its own, on the values of Valores.       *)
(***************************************************************************)
InitRound ==
    /\ NoPage
    /\ sales = Undefined
    /\ products = Undefined
    /\ timeFilter = "all"
    /\ now \in Nows
    /\ monthlySales = <<>>
    /\ categoryDistribution = <<>>
    /\ revenueContribution = <<>>
    /\ analiseConsumo = <<>>
    /\ valor \in Valores
    /\ arredondado = -1

Arredondar ==
    /\ arredondado = -1
    /\ arredondado' = arredondamentoPersonalizado(valor)
    /\ UNCHANGED <<valor, reportVars, pageVars>>

NextRound == Arredondar

SpecRound == InitRound /\ [][NextRound]_vars

(***************************************************************************)
(* The pages with the DateRangePicker: Dashboard and Sales.                *)
(***************************************************************************)
Date(t) == <<t>>
TimeOf(d) == d[1]

\* date.getDay(): 0 is Sunday; 2025-01-01 was a Wednesday
getDay(t) == (DayOf(t) + 3) % 7

\* date.setHours(0, 0, 0, 0) and date.setHours(23, 59, 59[, 999])
StartOfDay(t) == DayOf(t) * TicksPerDay
EndOfDay(t) == DayOf(t) * TicksPerDay + PM
\* date.setDate(date.getDate() + n): the time of the day is kept
AddDays(t, n) == t + n * TicksPerDay

Periods == {"all", "daily", "weekly", "monthly", "yearly", "custom"}

\* Dashboard.handlePeriodChange: the <<start, end>> it sets for a period other
\* than custom, read off the clock
DashboardRange(period, currentDate) ==
    LET y == getFullYear(currentDate)
        m == getMonth(currentDate)
    IN  CASE period = "daily" ->
                <<Date(StartOfDay(currentDate)), Date(EndOfDay(currentDate))>>
          [] period = "weekly" ->
                LET start == StartOfDay(AddDays(currentDate, -getDay(currentDate)))
                IN  <<Date(start), Date(EndOfDay(AddDays(start, 6)))>>
          [] period = "monthly" ->
                <<Date(NewDate(y, m, 1)), Date(NewDate(y, m + 1, 0) + PM)>>
          [] period = "yearly" ->
                <<Date(NewDate(y, 0, 1)), Date(NewDate(y, 11, 31) + PM)>>
          [] OTHER -> <<Null, Null>>

\* Sales.handlePeriodChange: the same for the Sales page; the weekly case
\* moves `now` by setDate only, the monthly and yearly ends are new Date(y, m, d)
SalesRange(period, agora) ==
    LET y == getFullYear(agora)
        m == getMonth(agora)
    IN  CASE period = "daily" ->
                <<Date(StartOfDay(agora)), Date(EndOfDay(agora))>>
          [] period = "weekly" ->
                LET start == AddDays(agora, -getDay(agora))
                IN  <<Date(start), Date(AddDays(start, 6))>>
          [] period = "monthly" ->
                <<Date(NewDate(y, m, 1)), Date(NewDate(y, m + 1, 0))>>
          [] period = "yearly" ->
                <<Date(NewDate(y, 0, 1)), Date(NewDate(y, 11, 31))>>
          [] OTHER -> <<Null, Null>>

PageRange(pg, period, agora) ==
    IF pg = "Dashboard" THEN DashboardRange(period, agora) ELSE SalesRange(period, agora)

\* Dashboard.filterSalesByDateRange and the isDateMatch of Sales.filteredSales
\* (search term empty, payment filter 'all')
InRange(t, start, end) == t >= TimeOf(start) /\ t <= TimeOf(end)

filterSalesByDateRange(ss, start, end) ==
    IF start = Null \/ end = Null THEN ss
    ELSE SelectSeq(ss, LAMBDA sale : InRange(sale.created_at, start, end))

isDateMatch(sale, start, end) ==
    start = Null \/ end = Null \/ InRange(sale.created_at, start, end)

filteredSalesOf(pg, ss, start, end) ==
    IF pg = "Dashboard" THEN filterSalesByDateRange(ss, start, end)
    ELSE SelectSeq(ss, LAMBDA sale : isDateMatch(sale, start, end))

\* Dashboard effect: total, count and net profit of the filtered sales
ItemProfitOfAnyItem(ps, item) == item.price_at_sale * item.quantity

ItemProfit(ps, item) ==
    IF HasProduct(ps, item.product_id)
    THEN (item.price_at_sale - FindProduct(ps, item.product_id).cost_price) * item.quantity
    ELSE 0

Total(ss) == SumSeq([i \in 1..Len(ss) |-> ss[i].total])

Profit(ss, ps) ==
    SumSeq([i \in 1..Len(ss) |->
        SumSeq([j \in 1..Len(ss[i].sale_items) |-> ItemProfit(ps, ss[i].sale_items[j])])])

\* what the page shows after a render with the given range
PageShows(pg, ss, ps, start, end) ==
    LET shown == filteredSalesOf(pg, ss, start, end)
    IN  [visibleSales |-> shown,
         totalSales |-> IF pg = "Dashboard" THEN Total(shown) ELSE 0,
         numberOfSales |-> IF pg = "Dashboard" THEN Len(shown) ELSE 0,
         netProfit |-> IF pg = "Dashboard" THEN Profit(shown, ps) ELSE 0]

Render(start, end) ==
    LET shows == PageShows(pagina, sales.rows, products.rows, start, end)
    IN  /\ visibleSales' = shows.visibleSales
        /\ totalSales' = shows.totalSales
        /\ numberOfSales' = shows.numberOfSales
        /\ netProfit' = shows.netProfit

pageData == <<visibleSales, totalSales, numberOfSales, netProfit>>
reportData == <<sales, products, timeFilter, monthlySales, categoryDistribution,
                revenueContribution, analiseConsumo, valor, arredondado>>

\* the instants the clock is read at: a Sunday, the last day of a month and
\* a Saturday, each at every sampled time of the day
PageDays == {NewDate(1, 2, 29), NewDate(1, 2, 31), NewDate(1, 3, 4)}
PageNows == {d + h : d \in PageDays, h \in 0..PM}

\* the sales made so far: one at the start or the end of some days, the
\* last ones on the last day of the month and of the week
PageSales ==
    <<SaleOf(NewDate(1, 2, 28), <<Item(1, 2, 150)>>),
      BulkSale(NewDate(1, 2, 29) + PM),
      SaleOf(NewDate(1, 2, 31) + PM, <<Item(2, 1, 90)>>),
      SaleOf(NewDate(1, 3, 4) + PM, <<Item(3, 1, 70), Item(OrphanId, 2, 10)>>)>>
SalesUntil(t) == SelectSeq(PageSales, LAMBDA sale : sale.created_at <= t)

\* the days of the calendar the user clicks, delivered at midnight or at the
\* end of the day; maxDate={new Date()} keeps them up to today
PickInstants == {d + h : d \in {NewDate(1, 2, 28), NewDate(1, 2, 29)}, h \in {0, PM}}
Pickable == {d \in PickInstants : DayOf(d) <= DayOf(now)}

InitialRange(pg, agora) ==
    IF pg = "Dashboard" THEN <<Date(StartOfDay(agora)), Date(EndOfDay(agora))>>
    ELSE <<Null, Null>>

InitPage ==
    /\ pagina \in {"Dashboard", "Sales"}
    /\ now \in PageNows
    /\ sales = Snapshot(SalesUntil(now))
    /\ products = Snapshot(FullCatalog)
    /\ timeFilter = "all"
    /\ monthlySales = <<>>
    /\ categoryDistribution = <<>>
    /\ revenueContribution = <<>>
    /\ analiseConsumo = <<>>
    /\ valor = Rat(0, 1)
    /\ arredondado = -1
    /\ selectedPeriod = IF pagina = "Dashboard" THEN "daily" ELSE "all"
    /\ startDate = InitialRange(pagina, now)[1]
    /\ endDate = InitialRange(pagina, now)[2]
    /\ isCalendarOpen = FALSE
    /\ timers = <<>>
    /\ entregues = <<>>
    /\ evento = "mount"
    /\ LET shows == PageShows(pagina, sales.rows, products.rows, startDate, endDate)
       IN  /\ visibleSales = shows.visibleSales
           /\ totalSales = shows.totalSales
           /\ numberOfSales = shows.numberOfSales
           /\ netProfit = shows.netProfit

\* setIsCalendarOpen(open): a timer set before the surface opens again is
\* from then on a timer of an earlier opening
SetIsCalendarOpen(open) ==
    /\ isCalendarOpen' = open
    /\ timers' = IF ~isCalendarOpen /\ open
                 THEN [i \in 1..Len(timers) |-> TRUE] ELSE timers

\* DateRangePicker.handlePeriodChange: onPeriodChange(period) of the page,
\* then the surface opens for custom and closes for any other period
OpensAlways(period) == TRUE
OpensFor(period) == period = "custom"

RangeSetAnyway(pg, period, agora, start, end) == PageRange(pg, period, agora)
\* Dashboard/Sales.handlePeriodChange: `if (period !== 'custom')`
RangeAfter(pg, period, agora, start, end) ==
    IF period # "custom" THEN PageRange(pg, period, agora) ELSE <<start, end>>

handlePeriodChange ==
    \E period \in Periods \ {selectedPeriod} :
        LET range == RangeAfter(pagina, period, now, startDate, endDate)
        IN  /\ selectedPeriod' = period
            /\ startDate' = range[1]
            /\ endDate' = range[2]
            /\ SetIsCalendarOpen(OpensFor(period))
            /\ evento' = "period"
            /\ Render(range[1], range[2])
            /\ UNCHANGED <<entregues, pagina, now, reportData>>

\* onClick of the toggle, rendered for the custom period only
ToggleCalendar ==
    /\ selectedPeriod = "custom"
    /\ SetIsCalendarOpen(~isCalendarOpen)
    /\ evento' = "toggle"
    /\ UNCHANGED <<selectedPeriod, startDate, endDate, entregues, pageData,
                   pagina, now, reportData>>

\* handleClickOutside: a mousedown outside the picker
handleClickOutside ==
    /\ SetIsCalendarOpen(FALSE)
    /\ evento' = "outside"
    /\ UNCHANGED <<selectedPeriod, startDate, endDate, entregues, pageData,
                   pagina, now, reportData>>

\* what react-datepicker hands to onChange with selectsRange: a click with no
\* open range, or on a day before its start, starts a range; a click on or
\* after the start of an open range ends it
OpenRange == startDate # Null /\ endDate = Null
EndsRange(d) == OpenRange /\ DayOf(d) >= DayOf(TimeOf(startDate))
Deliveries ==
    {<<Date(d), Null>> : d \in {p \in Pickable : ~EndsRange(p)}}
    \cup {<<startDate, Date(e)>> : e \in {p \in Pickable : EndsRange(p)}}

\* endOfDay = new Date(end); endOfDay.setHours(23, 59, 59, 999)
endOfDayAtMidnight(end) == Date(StartOfDay(TimeOf(end)))
endOfDay(end) == Date(EndOfDay(TimeOf(end)))

Complete(dates) == dates[1] # Null /\ dates[2] # Null

\* the onChange calls of handleDateChange, in order
onChangeCallsRawLast(dates) ==
    IF Complete(dates) THEN <<<<dates[1], endOfDay(dates[2])>>, dates>> ELSE <<dates>>
onChangeCalls(dates) ==
    IF Complete(dates) THEN <<dates, <<dates[1], endOfDay(dates[2])>>>> ELSE <<dates>>

\* setTimeout(() => setIsCalendarOpen(false), 300), never cleared
TimersNeverSet(dates, ts) == ts
TimersAfter(dates, ts) == IF Complete(dates) THEN Append(ts, FALSE) ELSE ts

\* DateRangePicker.handleDateChange; the page's onChange sets startDate and
\* endDate, and the last call of the handler is the one rendered
handleDateChange ==
    /\ selectedPeriod = "custom"
    /\ isCalendarOpen
    /\ \E dates \in Deliveries :
        LET calls == onChangeCalls(dates)
            range == calls[Len(calls)]
        IN  /\ Len(TimersAfter(dates, timers)) <= MaxTimers
            /\ entregues' = calls
            /\ startDate' = range[1]
            /\ endDate' = range[2]
            /\ timers' = TimersAfter(dates, timers)
            /\ evento' = "dates"
            /\ Render(range[1], range[2])
            /\ UNCHANGED <<selectedPeriod, isCalendarOpen, pagina, now, reportData>>

\* the callback of the oldest pending timer runs
TimerFires ==
    /\ timers # <<>>
    /\ isCalendarOpen' = FALSE
    /\ timers' = Tail(timers)
    /\ evento' = "timer"
    /\ UNCHANGED <<selectedPeriod, startDate, endDate, entregues, pageData,
                   pagina, now, reportData>>

\* time passes
ClockAdvances ==
    /\ now' \in {n \in PageNows : n > now}
    /\ UNCHANGED <<pageVars, reportData>>

NextPage ==
    \/ handlePeriodChange
    \/ ToggleCalendar
    \/ handleClickOutside
    \/ handleDateChange
    \/ TimerFires
    \/ ClockAdvances

SpecPage == InitPage /\ [][NextPage]_vars

\* the browser runs the callback of every timer that is set
SpecPageFair == SpecPage /\ WF_vars(TimerFires)

(***************************************************************************)
(* Properties.                                                             *)
(***************************************************************************)
Ready == sales.ready /\ products.ready

\* the sales the effect hands to calcularConsumoMedio and to the aggregates
GivenSales == filterSalesByTime(sales.rows, timeFilter, now)

\* the record of the analysis for product p (product names are distinct)
RecordOf(p) == CHOOSE r \in Range(analiseConsumo) : r.produto = p.name

\* quantity of product p sold at or after instant t0, in the sales ss
SoldSince(p, ss, t0) ==
    SumSeq(Flatten([k \in 1..Len(ss) |->
        [j \in 1..Len(ss[k].sale_items) |->
            IF ss[k].sale_items[j].product_id = p.id /\ ss[k].created_at >= t0
            THEN ss[k].sale_items[j].quantity ELSE 0]]))

NoItemsOf(p, ss) ==
    \A k \in 1..Len(ss) : \A j \in 1..Len(ss[k].sale_items) :
        ss[k].sale_items[j].product_id # p.id

\* local midnight of the day one calendar month before the day of t
MonthAgoMidnight(t) == NewDate(getFullYear(t), getMonth(t) - 1, getDate(t))
\* the same time of day as t, one calendar month before
MonthAgoSameTime(t) == MonthAgoMidnight(t) + (t % TicksPerDay)
WeekAgo(t) == t - 7 * TicksPerDay

\* C1: every record of the consumption analysis has daily, weekly and monthly
\* consumption and suggested quantity each an integer >= 1.
C1_PositiveIntegers ==
    \A i \in 1..Len(analiseConsumo) :
        /\ analiseConsumo[i].consumo_diario \in Nat \ {0}
        /\ analiseConsumo[i].consumo_semanal \in Nat \ {0}
        /\ analiseConsumo[i].consumo_mensal \in Nat \ {0}
        /\ analiseConsumo[i].quantidade_sugerida \in Nat \ {0}

\* a product with a fractional daily rate (0 < M < 30) next to one that never sold
C1_Witness ==
    /\ Ready
    /\ \E p, q \in Range(products.rows) :
        /\ SoldSince(p, GivenSales, MonthAgoMidnight(now)) \in 1..29
        /\ RecordOf(p).consumo_diario = 1
        /\ NoItemsOf(q, sales.rows)
        /\ RecordOf(q).consumo_mensal = 1

\* C2: a product with no sale item in the sales given to the analysis has
\* daily = weekly = monthly = suggested = 1 and trend stable.
C2_NoSalesAllOnes ==
    Ready =>
        \A p \in Range(products.rows) :
            NoItemsOf(p, GivenSales) =>
                \E i \in 1..Len(analiseConsumo) :
                    analiseConsumo[i] =
                        [produto |-> p.name, consumo_diario |-> 1, consumo_semanal |-> 1,
                         consumo_mensal |-> 1, quantidade_sugerida |-> 1,
                         tendencia |-> "estavel"]

\* a product without items while another product of the catalog has sold
C2_Witness ==
    /\ Ready
    /\ \E p, q \in Range(products.rows) :
        /\ NoItemsOf(p, GivenSales)
        /\ RecordOf(p).quantidade_sugerida = 1
        /\ ~NoItemsOf(q, GivenSales)
        /\ RecordOf(q).consumo_mensal > 1

\* C3: the analysis does not depend on the display time filter: under every
\* filter the page computes the list it computes over all provided sales.
C3_FilterIndependent ==
    Ready =>
        \A f \in TimeFilters :
            analiseConsumo =
                AnaliseConsumo(filterSalesByTime(sales.rows, f, now), products.rows, now)

\* C4: trend is rising iff recent > 1.1 * older, falling iff recent < 0.9 *
\* older, stable otherwise (recent: sold in the last 7 days; older: sold in
\* the last month before that), so equality at either threshold is stable,
\* older = 0 < recent is rising and 0, 0 is stable.
C4_TrendStrict ==
    Ready =>
        \A p \in Range(products.rows) :
            LET recent == SoldSince(p, GivenSales, WeekAgo(now))
                older == SoldSince(p, GivenSales, MonthAgoMidnight(now)) - recent
                trend == RecordOf(p).tendencia
            IN  /\ (trend = "subindo") <=> (10 * recent > 11 * older)
                /\ (trend = "descendo") <=> (10 * recent < 9 * older)
                /\ trend \in {"subindo", "descendo", "estavel"}
                /\ (10 * recent = 11 * older \/ 10 * recent = 9 * older) => trend = "estavel"
                /\ (older = 0 /\ recent > 0) => trend = "subindo"

\* recent is exactly 1.1 times a non-zero older
C4_Witness ==
    /\ Ready
    /\ \E p \in Range(products.rows) :
        LET recent == SoldSince(p, GivenSales, WeekAgo(now))
            older == SoldSince(p, GivenSales, MonthAgoMidnight(now)) - recent
        IN  older > 0 /\ 10 * recent = 11 * older /\ RecordOf(p).tendencia = "estavel"

\* recent is exactly 0.9 times a non-zero older
C4_WitnessLow ==
    /\ Ready
    /\ \E p \in Range(products.rows) :
        LET recent == SoldSince(p, GivenSales, WeekAgo(now))
            older == SoldSince(p, GivenSales, MonthAgoMidnight(now)) - recent
        IN  older > 0 /\ 10 * recent = 9 * older /\ RecordOf(p).tendencia = "estavel"

CeilTimes12Over10(m) == CHOOSE k \in 0..(2 * m + 1) : 10 * k >= 12 * m /\ 10 * (k - 1) < 12 * m

\* the record the claim describes for monthly quantity m and weekly quantity w
C5_Record(p, m, w) ==
    /\ RecordOf(p).consumo_diario = arredondamentoPersonalizado(Rat(m, 30))
    /\ RecordOf(p).consumo_semanal = arredondamentoPersonalizado(Rat(w, 7))
    /\ RecordOf(p).consumo_mensal = arredondamentoPersonalizado(Rat(m, 1))
    /\ RecordOf(p).quantidade_sugerida =
           arredondamentoPersonalizado(Rat(CeilTimes12Over10(m), 1))
    /\ (w = 10 /\ m = 30) =>
           /\ RecordOf(p).consumo_diario = 1
           /\ RecordOf(p).consumo_mensal = 30
           /\ RecordOf(p).quantidade_sugerida = 36
           /\ RecordOf(p).tendencia = "descendo"

\* C5 (as stated): with M the quantity sold at or after one calendar month
\* before now and W the quantity sold at or after 7x24h before now, the record
\* has daily = custom-round(M/30), weekly = custom-round(W/7), monthly =
\* custom-round(M), suggested = custom-round(ceil(1.2 M)).
C5_RatesFromNow ==
    Ready =>
        \A p \in Range(products.rows) :
            C5_Record(p, SoldSince(p, GivenSales, MonthAgoSameTime(now)),
                         SoldSince(p, GivenSales, WeekAgo(now)))

\* C5 (amended): the same with M the quantity sold at or after local midnight
\* of the day one calendar month before today.
C5_RatesFromMidnight ==
    Ready =>
        \A p \in Range(products.rows) :
            C5_Record(p, SoldSince(p, GivenSales, MonthAgoMidnight(now)),
                         SoldSince(p, GivenSales, WeekAgo(now)))

\* the example of the claim: W = 10 and M = 30
C5_Witness ==
    /\ Ready
    /\ \E p \in Range(products.rows) :
        /\ SoldSince(p, GivenSales, MonthAgoMidnight(now)) = 30
        /\ SoldSince(p, GivenSales, WeekAgo(now)) = 10
        /\ RecordOf(p).quantidade_sugerida = 36

\* floor of the fraction v >= 0, and whether its fractional part is below 0.5
FloorOf(v) == CHOOSE k \in 0..v.num : k * v.den <= v.num /\ v.num < (k + 1) * v.den
FractionBelowHalf(v) == 2 * (v.num - FloorOf(v) * v.den) < v.den

\* C6: custom-round(v) is 1 for v < 1, floor(v) for v >= 1 with fractional
\* part below 0.5 and floor(v) + 1 otherwise (0 -> 1, 0.49 -> 1, 1.49 -> 1,
\* 1.5 -> 2), and the identity on the integers >= 1.
C6_CustomRound ==
    arredondado # -1 =>
        /\ arredondado =
               IF valor.num < valor.den THEN 1
               ELSE IF FractionBelowHalf(valor) THEN FloorOf(valor)
               ELSE FloorOf(valor) + 1
        /\ valor \in {Rat(0, 1), Rat(49, 100), Rat(149, 100)} => arredondado = 1
        /\ valor \in {Rat(150, 100), Rat(3, 2)} => arredondado = 2
        /\ (valor.den = 1 /\ valor.num >= 1) => arredondado = valor.num

\* 1.5 has been rounded to 2
C6_Witness == valor = Rat(150, 100) /\ arredondado = 2

\* position of the product named nm in the catalog
CatalogIndex(nm) == CHOOSE i \in 1..Len(products.rows) : products.rows[i].name = nm

\* C7: the analysis list has exactly one record per catalog product, is
\* non-increasing in suggested quantity, and records with equal suggested
\* quantity are in catalog order.
C7_SortedStable ==
    Ready =>
        /\ Len(analiseConsumo) = Len(products.rows)
        /\ \A p \in Range(products.rows) :
               Cardinality({i \in 1..Len(analiseConsumo) :
                               analiseConsumo[i].produto = p.name}) = 1
        /\ \A i, j \in 1..Len(analiseConsumo) :
               i < j =>
                   /\ analiseConsumo[i].quantidade_sugerida >=
                          analiseConsumo[j].quantidade_sugerida
                   /\ analiseConsumo[i].quantidade_sugerida =
                          analiseConsumo[j].quantidade_sugerida
                      => CatalogIndex(analiseConsumo[i].produto) <
                             CatalogIndex(analiseConsumo[j].produto)

\* the sort has moved a later product to the front and there is a tie
C7_Witness ==
    /\ Ready
    /\ Len(analiseConsumo) >= 3
    /\ analiseConsumo[1].produto # products.rows[1].name
    /\ \E i \in 1..(Len(analiseConsumo) - 1) :
           analiseConsumo[i].quantidade_sugerida = analiseConsumo[i + 1].quantidade_sugerida

\* the sum of f[x] over the x of S
RECURSIVE SetSum(_, _)
SetSum(S, f) ==
    IF S = {} THEN 0
    ELSE LET x == CHOOSE y \in S : TRUE IN f[x] + SetSum(S \ {x}, f)

\* price * quantity of the items of the sales ss that satisfy Counts
ItemRevenues(ss, Counts(_)) ==
    SumSeq(Flatten([k \in 1..Len(ss) |->
        [j \in 1..Len(ss[k].sale_items) |->
            IF Counts(ss[k].sale_items[j])
            THEN ss[k].sale_items[j].price_at_sale * ss[k].sale_items[j].quantity
            ELSE 0]]))
RevenueOfProduct(p, ss) == ItemRevenues(ss, LAMBDA item : item.product_id = p.id)
RevenueOfProducts(S, ss) == SetSum(S, [p \in S |-> RevenueOfProduct(p, ss)])
\* the catalog products with at least one item in the sales ss
SoldProducts(ss) == {p \in Range(products.rows) : ~NoItemsOf(p, ss)}
\* the revenue of all items of ss whose product is in the catalog
GrandTotal(ss) ==
    ItemRevenues(ss, LAMBDA item : \E p \in Range(products.rows) : p.id = item.product_id)

IsZeroPercent(x) == x.den # 0 /\ x.num = 0
IsNaN(x) == x.den = 0 /\ x.num = 0

\* C8: whenever the grand total of revenue is zero, every percentage of the
\* category distribution and of the revenue contribution (Others included)
\* is 0, never the result of a division by zero.
C8_ZeroTotalZeroPercent ==
    (Ready /\ GrandTotal(GivenSales) = 0) =>
        /\ \A i \in 1..Len(categoryDistribution) : IsZeroPercent(categoryDistribution[i].value)
        /\ \A i \in 1..Len(revenueContribution) : IsZeroPercent(revenueContribution[i].percentage)

\* the fractions of pcts add up to 100
SumsTo100(pcts) ==
    /\ pcts # <<>>
    /\ \A i \in 1..Len(pcts) : pcts[i].den = pcts[1].den /\ pcts[i].den # 0
    /\ SumSeq([i \in 1..Len(pcts) |-> pcts[i].num]) = 100 * pcts[1].den

CategoryPercentages == [i \in 1..Len(categoryDistribution) |-> categoryDistribution[i].value]
RevenuePercentages == [i \in 1..Len(revenueContribution) |-> revenueContribution[i].percentage]

\* C9 (as stated): whenever the filtered sale set is non-empty, the category
\* percentages sum to 100 and the product-revenue percentages sum to 100.
C9_NonEmptySumsTo100 ==
    (Ready /\ GivenSales # <<>>) =>
        SumsTo100(CategoryPercentages) /\ SumsTo100(RevenuePercentages)

\* C9 (amended): whenever the grand total of revenue is not zero, the category
\* percentages sum to 100 and the product-revenue percentages sum to 100.
C9_NonZeroTotalSumsTo100 ==
    (Ready /\ GrandTotal(GivenSales) # 0) =>
        SumsTo100(CategoryPercentages) /\ SumsTo100(RevenuePercentages)

\* several categories and a non-zero Others entry
C9_Witness ==
    /\ Ready
    /\ GrandTotal(GivenSales) # 0
    /\ Len(categoryDistribution) >= 2
    /\ Len(revenueContribution) = 6
    /\ revenueContribution[6].percentage.num > 0

Min(a, b) == IF a < b THEN a ELSE b
ProductNamed(nm) == CHOOSE p \in Range(products.rows) : p.name = nm

\* C10: the revenue contribution lists the (at most) 5 products of highest
\* revenue, in non-increasing revenue order, then one Others entry carrying the
\* summed revenue of the remaining products; the un-floored revenues of all
\* entries add up to the grand total, and Others carries revenue only when
\* more than 5 products have revenue.
C10_TopFiveAndOthers ==
    Ready =>
        LET given == GivenSales
            sold == SoldProducts(given)
            n == Len(revenueContribution) - 1
            listed == {ProductNamed(revenueContribution[i].name) : i \in 1..n}
            rest == sold \ listed
            others == revenueContribution[n + 1]
            rev == [i \in 1..n |->
                       RevenueOfProduct(ProductNamed(revenueContribution[i].name), given)]
        IN  /\ n = Min(5, Cardinality(sold))
            /\ \A i \in 1..n : \E p \in sold : p.name = revenueContribution[i].name
            /\ Cardinality(listed) = n
            /\ others.name = <<"reports.others", 0>>
            /\ \A i \in 1..n :
                   /\ revenueContribution[i].value = rev[i] \div 100
                   /\ revenueContribution[i].percentage.num = 100 * rev[i]
                   /\ i < n => rev[i] >= rev[i + 1]
            /\ n > 0 => \A q \in rest : RevenueOfProduct(q, given) <= rev[n]
            /\ others.value = RevenueOfProducts(rest, given) \div 100
            /\ others.percentage.num = 100 * RevenueOfProducts(rest, given)
            /\ SumSeq([i \in 1..(n + 1) |-> revenueContribution[i].percentage.num])
                   = 100 * GrandTotal(given)
            /\ others.percentage.num > 0 => Cardinality(sold) > 5

\* more than 5 products with revenue, the first listed not the first sold
C10_Witness ==
    /\ Ready
    /\ Cardinality(SoldProducts(GivenSales)) > 5
    /\ revenueContribution[6].percentage.num > 0
    /\ revenueContribution[1].name # products.rows[1].name
    /\ revenueContribution[1].value * 100 <
           RevenueOfProduct(ProductNamed(revenueContribution[1].name), GivenSales)

(***************************************************************************)
(* Claims about the pages with the DateRangePicker.                        *)
(***************************************************************************)
OnDashboard == pagina = "Dashboard"
OnSales == pagina = "Sales"

\* the sales with one more item, of a product no catalog has, in the k-th
WithOrphanItem(ss, k) ==
    [ss EXCEPT ![k] = SaleOf(ss[k].created_at,
                             Append(ss[k].sale_items, Item(OrphanId, 3, 500)))]

\* the net profit the Dashboard shows for the sales under a range
NetProfitOf(ss, ps, range) == Profit(filterSalesByDateRange(ss, range[1], range[2]), ps)
ResolvedRanges(agora) == {DashboardRange(period, agora) : period \in Periods \ {"custom"}}

\* C11: a sale item whose product_id matches no product of the catalog
\* contributes nothing: with such an item added to any one sale, the
\* category distribution, the revenue contribution and the consumption
\* records of the Reports page and the net profit of the Dashboard (under
\* every resolved range) are what they are without it.
C11_OrphanItemIgnored ==
    Ready =>
        \A k \in 1..Len(sales.rows) :
            LET more == WithOrphanItem(sales.rows, k)
                given == filterSalesByTime(more, timeFilter, now)
            IN  /\ CategoryDistribution(given, products.rows) = categoryDistribution
                /\ RevenueContribution(given, products.rows) = revenueContribution
                /\ AnaliseConsumo(given, products.rows, now) = analiseConsumo
                /\ \A range \in ResolvedRanges(now) :
                      NetProfitOf(more, products.rows, range)
                          = NetProfitOf(sales.rows, products.rows, range)

\* the pages show sales of catalog products, some in today's range, and a
\* profit
C11_Witness ==
    /\ Ready
    /\ Len(sales.rows) > 1
    /\ categoryDistribution # <<>>
    /\ NetProfitOf(sales.rows, products.rows, DashboardRange("daily", now)) > 0
    /\ NetProfitOf(sales.rows, products.rows, DashboardRange("daily", now))
           < NetProfitOf(sales.rows, products.rows, DashboardRange("all", now))

\* a step in which the select of the picker is set to the period
Chooses(period) == evento' = "period" /\ selectedPeriod # period /\ selectedPeriod' = period

\* the day of the most recent Sunday, today if today is one
MostRecentSunday(t) ==
    CHOOSE d \in (DayOf(t) - 6)..DayOf(t) : getDay(d * TicksPerDay) = 0
FirstInstant(day) == day * TicksPerDay
LastInstant(day) == day * TicksPerDay + PM

\* C12: choosing weekly, on the Dashboard and on the Sales page, sets the
\* start to 00:00:00 of the most recent Sunday and the end to 23:59:59 of
\* the Saturday six days after it, whatever the weekday and time of now.
C12_WeeklySundayToSaturday ==
    [][Chooses("weekly") =>
          /\ startDate' = Date(FirstInstant(MostRecentSunday(now)))
          /\ endDate' = Date(LastInstant(MostRecentSunday(now) + 6))]_vars

\* the first and the last day of the month and of the year of an instant
FirstDayOfMonth(t) == DayOf(t) - getDate(t) + 1
LastDayOfMonth(t) == FirstDayOfMonth(t) + MonthLen[getMonth(t) + 1] - 1
FirstDayOfYear(t) == DayOf(t) - DayOfYear(t)
LastDayOfYear(t) == FirstDayOfYear(t) + 364

SalesOfDay(ss, day) == SelectSeq(ss, LAMBDA sale : DayOf(sale.created_at) = day)
ShowsAll(ss, shown) == \A i \in 1..Len(ss) : \E j \in 1..Len(shown) : shown[j] = ss[i]

\* C13: choosing monthly (yearly), on the Dashboard and on the Sales page,
\* sets the start to 00:00:00 of the first day and the end to 23:59:59 of the
\* last day of the current month (year), and every sale made on that last
\* day passes the date filter.
C13_MonthAndYearToLastDay ==
    [][/\ Chooses("monthly") =>
            /\ startDate' = Date(FirstInstant(FirstDayOfMonth(now)))
            /\ endDate' = Date(LastInstant(LastDayOfMonth(now)))
            /\ ShowsAll(SalesOfDay(sales.rows, LastDayOfMonth(now)), visibleSales')
       /\ Chooses("yearly") =>
            /\ startDate' = Date(FirstInstant(FirstDayOfYear(now)))
            /\ endDate' = Date(LastInstant(LastDayOfYear(now)))
            /\ ShowsAll(SalesOfDay(sales.rows, LastDayOfYear(now)), visibleSales')]_vars

\* a null bound is no bound on its side only
WithinBounds(t, start, end) ==
    /\ start # Null => t >= TimeOf(start)
    /\ end # Null => t <= TimeOf(end)

\* C14: the sales a page shows are those within the range, a null bound
\* being unbounded on its side only: with the start set and the end null, a
\* sale is shown iff its timestamp is at or after the start.
C14_NullBoundUnboundedOnItsSide ==
    visibleSales =
        SelectSeq(sales.rows, LAMBDA sale : WithinBounds(sale.created_at, startDate, endDate))

\* a step of handleDateChange, and the last range it delivered
PicksDate == evento' = "dates" /\ now' = now /\ vars' # vars
LastDelivered == entregues'[Len(entregues')]
IsLastInstantOfDay(d) == TimeOf(d) = LastInstant(DayOf(TimeOf(d)))

\* C15: a click that only picks a start delivers exactly one onChange, with
\* a null end; a click that picks the end of the open range delivers
\* onChange again, and the last range delivered keeps the start and has the
\* end at the last instant of the picked day, which is the range the page
\* then holds.
C15_LastDeliveredNormalized ==
    [][PicksDate =>
          /\ ~OpenRange => Len(entregues') = 1
          /\ \/ /\ Len(entregues') = 1
                /\ LastDelivered[1] # Null
                /\ LastDelivered[2] = Null
             \/ /\ OpenRange
                /\ LastDelivered[1] = startDate
                /\ LastDelivered[2] # Null
                /\ IsLastInstantOfDay(LastDelivered[2])
                /\ entregues'[1][2] # Null
                /\ DayOf(TimeOf(entregues'[1][2])) = DayOf(TimeOf(LastDelivered[2]))
          /\ startDate' = LastDelivered[1]
          /\ endDate' = LastDelivered[2]]_vars

\* a range was completed by a click delivered at 00:00:00 and the page holds
\* it with the end at the last instant of that day
C15_Witness ==
    /\ evento = "dates"
    /\ Len(entregues) = 2
    /\ entregues[1][2] # Null
    /\ TimeOf(entregues[1][2]) < TimeOf(entregues[2][2])
    /\ endDate = entregues[2][2]
    /\ startDate = entregues[1][1]

\* C16: on the Dashboard and on the Sales page, after any sequence of
\* period choices and calendar clicks, a range with both bounds set has its
\* start at or before its end.
C16_StartNotAfterEnd ==
    (startDate # Null /\ endDate # Null) => TimeOf(startDate) <= TimeOf(endDate)

\* a custom range completed on the day of its start, the start delivered at
\* the end of that day
C16_Witness ==
    /\ selectedPeriod = "custom"
    /\ evento = "dates"
    /\ Len(entregues) = 2
    /\ startDate # Null
    /\ endDate # Null
    /\ DayOf(TimeOf(startDate)) = DayOf(TimeOf(endDate))
    /\ TimeOf(startDate) > FirstInstant(DayOf(TimeOf(startDate)))

\* C18: choosing custom in the select changes the selected period and opens
\* the surface only: the start and the end keep their values, and so does
\* what the page shows.
C18_CustomKeepsRange ==
    [][Chooses("custom") =>
          /\ startDate' = startDate
          /\ endDate' = endDate
          /\ isCalendarOpen'
          /\ UNCHANGED <<pagina, entregues, pageData, now, reportData>>]_vars

\* custom was chosen over a resolved range, which is still there
C18_Witness ==
    /\ selectedPeriod = "custom"
    /\ evento = "period"
    /\ isCalendarOpen
    /\ startDate # Null
    /\ endDate # Null
    /\ entregues = <<>>

\* C20: whenever the surface of the picker is open, the selected period is
\* custom.
C20_OpenOnlyForCustom == isCalendarOpen => selectedPeriod = "custom"

\* the surface was opened with the toggle after a completed selection
C20_Witness == isCalendarOpen /\ evento = "toggle" /\ Len(entregues) = 2

\* a step in which a pending timer runs; Head(timers) tells whether the
\* surface was opened again after the timer was set
TimerCloses == timers # <<>> /\ timers' = Tail(timers) /\ evento' = "timer"

\* C19: the delayed close set by a completed selection closes the surface of
\* that selection only: a surface closed during the delay and opened again
\* is not closed by the timer that was pending.
C19_TimerClosesOwnSurfaceOnly ==
    [][(TimerCloses /\ isCalendarOpen /\ ~isCalendarOpen') => ~Head(timers)]_vars

\* handleClickOutside closes at once, whatever is pending
ClosedByOutsideClick == evento = "outside" => ~isCalendarOpen
CompletedWhileOpen == evento = "dates" /\ Len(entregues) = 2 /\ isCalendarOpen

\* C17: when a selection of two dates completes with the surface open, the
\* surface is closed some time later, by the delayed close if nothing closes
\* it before; and after a click outside the picker the surface is closed.
C17_CompletionLeadsToClosed ==
    /\ CompletedWhileOpen ~> ~isCalendarOpen
    /\ []ClosedByOutsideClick

\* the delayed close of a completed selection has run
C17_Witness == evento = "timer" /\ ~isCalendarOpen /\ Len(entregues) = 2 /\ timers = <<>>

====
